---------------------------- MODULE Spec2Model ----------------------------
(***************************************************************************)
(* Incremental synchronization and build orchestration of the workspace    *)
(* tool: the coalescing watch loop of .vscode/build-tasks.ts (watchTask),  *)
(* the chokidar watch session of eslint/workspace-manager.js               *)
(* (startWatcher), the tree mirror (smartSync) and the library             *)
(* materializer (syncLibrariesIfNeeded) with the build cycle around them.  *)
(*                                                                         *)
(* Each subsystem has its own specification over its own variables; the    *)
(* variables of the other subsystems are parked at a constant value.       *)
(***************************************************************************)
EXTENDS Integers, Sequences, FiniteSets, TLC

VARIABLES
    \* ---- watchTask (build-tasks.ts) ----
    taskInProgress,   \* let taskInProgress (line 682)
    pendingWork,      \* let pendingWork (line 683)
    running,          \* executions of the watch-task series started and not yet stopped/errored
    wtChanges,        \* history: file-change events delivered so far
    wtBurst,          \* history: size k of the burst the most recent change event belongs to
                      \*          (events that arrived during the same executing cycle; 0: it arrived while waiting)
    wtFresh,          \* history: no change event has arrived yet during the cycle now executing
    wtFollowUps,      \* history: cycles started since the most recent change event arrived
    wtErrors,         \* history: cycles that ended with 'error'
    \* ---- the watch session of WorkspaceManager.startWatcher ----
    wmHandlers,       \* the invocations of the watcher's event handlers, in order of arrival:
                      \* [kind, script, pc, during, sess, stale], pc the await the async
                      \* handler has reached, sess the session that emitted the event
    wmSessions,       \* the chokidar watchers created for the project, in order of creation:
                      \* [mgr, open, born, closedAt]
    wmRegistry,       \* activeWatchers of each WorkspaceManager: the session registered
                      \* under the project's name, 0 when none
    wmManagers,       \* WorkspaceManager instances alive (one per running process)
    wmStopCommands,   \* history: `stop <project>` commands that have returned
    \* ---- the file system and the operations on it ----
    fs,               \* the file system: existing absolute path -> node (directory or file)
    now,              \* the clock, in ticks
    copyKeepsMtime,   \* does fs.copyFileSync keep the source's mtime (CopyFileW) or stamp the copy (POSIX)
    args,             \* the arguments of the smartSync call under study: [exclude, preserve]
    runs,             \* operations (smartSync runs, build cycles) completed so far
    minecraftDir,     \* this.minecraftDir: the deployment root, or Null when none was found
    fsBefore,         \* history: the file system before the most recent operation
    fsBuilt,          \* history: the file system between the build and the sync stage of that operation
    fsInit,           \* history: the file system before the first operation
    last              \* history: what the most recent operation did: [copied, deleted, err, ...]

wtVars == <<taskInProgress, pendingWork, running, wtChanges, wtBurst,
            wtFresh, wtFollowUps, wtErrors>>

wmVars == <<wmHandlers, wmSessions, wmRegistry, wmManagers, wmStopCommands>>

fsVars == <<fs, now, copyKeepsMtime, args, runs, minecraftDir, fsBefore, fsBuilt, fsInit, last>>

vars == <<wtVars, wmVars, fsVars>>

-----------------------------------------------------------------------------
(* Bounds of the model                                                     *)

\* file-change events delivered to the watchTask callback in one behaviour
MaxChanges == 5

\* events the chokidar watcher emits in one behaviour
MaxEvents == 3

\* events emitted in one behaviour of the sessions' starts and stops
MaxSessionEvents == 2

\* watchers created, processes started and stop commands run in one behaviour
MaxSessions == 2
MaxManagers == 2
MaxStops == 1

\* file sizes are 1..MaxSize
MaxSize == 2

\* modification times of the initial files are 0..MaxTime ticks
MaxTime == 3

\* entries (files and directories) below the source root, and below the
\* destination root, of an initial tree
MaxSrcNodes == 4
MaxDstNodes == 2

\* operations (smartSync runs, build cycles) in one behaviour
MaxRuns == 2

-----------------------------------------------------------------------------
(***************************************************************************)
(* watchTask, .vscode/build-tasks.ts lines 669-719, in watch mode.         *)
(*                                                                         *)
(* undertaker emits 'start' for a task synchronously when the series that  *)
(* holds it is invoked, and 'stop' or 'error' (never both) when the task   *)
(* ends; the task body itself runs asynchronously.  Events of tasks with   *)
(* another name pass the handlers without effect.                          *)
(***************************************************************************)

WATCH_TASK_NAME == "watch-task"

\* the names undertaker reports: the registered watch task and the tasks inside it
TaskNames == {WATCH_TASK_NAME, "inner"}

\* undertaker.on('start', ...), lines 696-700
OnStart(name) ==
    taskInProgress' = IF name = WATCH_TASK_NAME THEN TRUE ELSE taskInProgress

\* executeTask(origTask), lines 672-674: invokes series(WATCH_TASK_NAME); the
\* series starts one execution of the watch task and emits its 'start'.
ExecuteTask ==
    /\ running' = running + 1
    /\ OnStart(WATCH_TASK_NAME)

\* onFinished that forgets the pending work and returns to waiting
OnFinishedDropsPending ==
    /\ taskInProgress' = FALSE
    /\ pendingWork' = FALSE
    /\ running' = running - 1
    /\ UNCHANGED <<wtFollowUps, wtFresh>>

\* onFinished that starts the follow-up cycle but leaves pendingWork set
OnFinishedKeepsPending ==
    IF pendingWork
    THEN /\ running' = (running - 1) + 1
         /\ OnStart(WATCH_TASK_NAME)
         /\ wtFollowUps' = wtFollowUps + 1
         /\ wtFresh' = TRUE
         /\ UNCHANGED pendingWork
    ELSE /\ taskInProgress' = FALSE
         /\ running' = running - 1
         /\ UNCHANGED <<pendingWork, wtFollowUps, wtFresh>>

\* onFinished(args), lines 684-695, for args.name = WATCH_TASK_NAME; the
\* execution that ended is no longer running when the event is emitted.
OnFinishedWatchTask ==
    IF pendingWork
    THEN /\ pendingWork' = FALSE
         /\ running' = (running - 1) + 1
         /\ OnStart(WATCH_TASK_NAME)
         /\ wtFollowUps' = wtFollowUps + 1
         /\ wtFresh' = TRUE
    ELSE /\ taskInProgress' = FALSE
         /\ running' = running - 1
         /\ UNCHANGED <<pendingWork, wtFollowUps, wtFresh>>

\* undertaker.on('stop', ...), lines 701-703
OnStop(name) ==
    /\ running > 0
    /\ IF name = WATCH_TASK_NAME
       THEN OnFinishedWatchTask
       ELSE UNCHANGED <<taskInProgress, pendingWork, running, wtFollowUps, wtFresh>>
    /\ UNCHANGED <<wtChanges, wtBurst, wtErrors>>

\* an 'error' listener that does not call onFinished
OnErrorIgnored(name) ==
    /\ running > 0
    /\ running' = IF name = WATCH_TASK_NAME THEN running - 1 ELSE running
    /\ wtErrors' = IF name = WATCH_TASK_NAME THEN wtErrors + 1 ELSE wtErrors
    /\ UNCHANGED <<taskInProgress, pendingWork, wtFollowUps, wtFresh, wtChanges, wtBurst>>

\* undertaker.on('error', ...), lines 704-706
OnError(name) ==
    /\ running > 0
    /\ IF name = WATCH_TASK_NAME
       THEN OnFinishedWatchTask
       ELSE UNCHANGED <<taskInProgress, pendingWork, running, wtFollowUps, wtFresh>>
    /\ wtErrors' = IF name = WATCH_TASK_NAME THEN wtErrors + 1 ELSE wtErrors
    /\ UNCHANGED <<wtChanges, wtBurst>>

\* a watch callback that starts an execution on every change event
WatchCallbackUnguarded ==
    /\ wtChanges < MaxChanges
    /\ wtChanges' = wtChanges + 1
    /\ ExecuteTask
    /\ wtFollowUps' = 1
    /\ wtBurst' = 0
    /\ wtFresh' = TRUE
    /\ UNCHANGED <<pendingWork, wtErrors>>

\* a watch callback that records pending work whether or not a cycle runs
WatchCallbackOnlyPends ==
    /\ wtChanges < MaxChanges
    /\ wtChanges' = wtChanges + 1
    /\ pendingWork' = TRUE
    /\ wtFollowUps' = 0
    /\ wtBurst' = IF wtFresh THEN 1 ELSE wtBurst + 1
    /\ wtFresh' = FALSE
    /\ UNCHANGED <<taskInProgress, running, wtErrors>>

\* the callback of just_scripts.watch(globs, ...), lines 710-716
WatchCallback ==
    /\ wtChanges < MaxChanges
    /\ wtChanges' = wtChanges + 1
    /\ IF ~taskInProgress
       THEN /\ ExecuteTask
            /\ wtFollowUps' = 1
            /\ wtBurst' = 0
            /\ wtFresh' = TRUE
            /\ UNCHANGED pendingWork
       ELSE /\ pendingWork' = TRUE
            /\ wtFollowUps' = 0
            /\ wtBurst' = IF wtFresh THEN 1 ELSE wtBurst + 1
            /\ wtFresh' = FALSE
            /\ UNCHANGED <<taskInProgress, running>>
    /\ UNCHANGED wtErrors

\* the state when the function returned by watchTask has run (lines 682-717):
\* both flags initialised, the first execution started by line 709.
WatchTaskStart ==
    /\ taskInProgress = TRUE
    /\ pendingWork = FALSE
    /\ running = 1
    /\ wtChanges = 0
    /\ wtBurst = 0
    /\ wtFresh = TRUE
    /\ wtFollowUps = 0
    /\ wtErrors = 0

-----------------------------------------------------------------------------
(***************************************************************************)
(* The watch session of WorkspaceManager.startWatcher,                     *)
(* eslint/workspace-manager.js lines 97-171.                               *)
(*                                                                         *)
(* Every handler is an async function: it runs synchronously up to its     *)
(* first await and is resumed later; between the two the watcher may emit  *)
(* further events (chokidar emits the unlink events of a removed directory *)
(* in one synchronous loop, and an EventEmitter runs a listener on every   *)
(* emit).  The handlers share no flag and take no lock.  The effect of     *)
(* buildProject and syncToMinecraft on the file system is modelled by the  *)
(* operators of the same name below.                                       *)
(***************************************************************************)

EventKinds == {"change", "add", "addDir", "unlink"}

\* does the handler of this event call buildProject (lines 121-123, 132-134, 144-148)
CallsBuild(kind, script) ==
    CASE kind \in {"change", "add"} -> script      \* filePath ends with .ts or .js
      [] kind = "addDir"             -> script      \* relativePath includes tscripts/typescripts
      [] OTHER                       -> FALSE

\* does the handler call syncToMinecraft (lines 125, 136, 147, 167)
CallsSync(kind, script) ==
    IF kind = "addDir" THEN script ELSE TRUE

\* the await a handler is suspended at once its synchronous prefix has run
FirstAwait(kind, script) ==
    IF CallsBuild(kind, script) THEN "build"
    ELSE IF CallsSync(kind, script) THEN "sync"
    ELSE "done"

InFlight(h) == h.pc \in {"build", "sync"}

CyclesInFlight == Cardinality({i \in DOMAIN wmHandlers : InFlight(wmHandlers[i])})

\* watcher.on(kind, async ...) is invoked: lines 117, 128, 139, 151.  A
\* chokidar watcher emits nothing once close() was called on it.
HandlerInvoked(kind, script, s) ==
    /\ Len(wmHandlers) < MaxEvents
    /\ wmSessions[s].open
    /\ wmHandlers' = Append(wmHandlers,
            [kind |-> kind, script |-> script, pc |-> FirstAwait(kind, script),
             during |-> CyclesInFlight > 0, sess |-> s,
             stale |-> wmSessions[s].born < wmStopCommands])
    /\ UNCHANGED <<wmSessions, wmRegistry, wmManagers, wmStopCommands>>

\* await this.buildProject(projectPath) returns: lines 122, 133, 146
BuildReturns(i) ==
    /\ wmHandlers[i].pc = "build"
    /\ wmHandlers' = [wmHandlers EXCEPT ![i].pc = "sync"]
    /\ UNCHANGED <<wmSessions, wmRegistry, wmManagers, wmStopCommands>>

\* await this.syncToMinecraft(projectName, projectPath) returns: lines 125, 136, 147, 167
SyncReturns(i) ==
    /\ wmHandlers[i].pc = "sync"
    /\ wmHandlers' = [wmHandlers EXCEPT ![i].pc = "done"]
    /\ UNCHANGED <<wmSessions, wmRegistry, wmManagers, wmStopCommands>>

\* watcher.close() on session s, after `emitted` events
Close(sessions, s, emitted) ==
    IF sessions[s].open
    THEN [sessions EXCEPT ![s].open = FALSE, ![s].closedAt = emitted]
    ELSE sessions

\* chokidar.watch(...) by manager m, line 108
NewSession(m) == [mgr |-> m, open |-> TRUE, born |-> wmStopCommands, closedAt |-> 0]

\* startWatcher that registers the new watcher without closing the old one
StartWatcherKeepsOld(sessions, reg, m) ==
    [sessions |-> Append(sessions, NewSession(m)), reg |-> Len(sessions) + 1]

\* startWatcher, lines 97-100 and 170, on the
\* registry entry reg of manager m: the sessions and the entry afterwards
StartWatcherOn(sessions, reg, m) ==
    LET closed == IF reg # 0 THEN Close(sessions, reg, Len(wmHandlers)) ELSE sessions
    IN  [sessions |-> Append(closed, NewSession(m)), reg |-> Len(sessions) + 1]

\* stopProject that forgets the watcher without closing it
StopProjectForgets(sessions, reg) ==
    [sessions |-> sessions, reg |-> 0]

\* stopProject(projectName), lines 450-456, on the registry entry reg
StopProjectOn(sessions, reg) ==
    IF reg # 0
    THEN [sessions |-> Close(sessions, reg, Len(wmHandlers)), reg |-> 0]
    ELSE [sessions |-> sessions, reg |-> reg]

\* manager m starts (or restarts) watching the project: startProject and
\* startCurrentProject call startWatcher, lines 45 and 73
StartWatcher(m) ==
    /\ m \in 1..wmManagers
    /\ Len(wmSessions) < MaxSessions
    /\ LET r == StartWatcherOn(wmSessions, wmRegistry[m], m)
       IN  /\ wmSessions' = r.sessions
           /\ wmRegistry' = [wmRegistry EXCEPT ![m] = r.reg]
    /\ UNCHANGED <<wmHandlers, wmManagers, wmStopCommands>>

\* manager m is told to stop watching the project
StopProject(m) ==
    /\ m \in 1..wmManagers
    /\ LET r == StopProjectOn(wmSessions, wmRegistry[m])
       IN  /\ wmSessions' = r.sessions
           /\ wmRegistry' = [wmRegistry EXCEPT ![m] = r.reg]
    /\ UNCHANGED <<wmHandlers, wmManagers, wmStopCommands>>

\* `node workspace-manager.js start <project>` (or start-current), lines
\* 953-970: a new process with a new WorkspaceManager (its activeWatchers
\* empty, line 13) that calls startProject and stays alive on the watcher
CliStart ==
    /\ wmManagers < MaxManagers
    /\ Len(wmSessions) < MaxSessions
    /\ LET m == wmManagers + 1
           r == StartWatcherOn(wmSessions, 0, m)
       IN  /\ wmSessions' = r.sessions
           /\ wmRegistry' = [wmRegistry EXCEPT ![m] = r.reg]
           /\ wmManagers' = m
    /\ UNCHANGED <<wmHandlers, wmStopCommands>>

\* `node workspace-manager.js stop <project>`, lines 953-955 and 980-986: a
\* new process with a new WorkspaceManager calls stopProject on its own,
\* empty registry and exits
CliStop ==
    /\ wmStopCommands < MaxStops
    /\ LET r == StopProjectOn(wmSessions, 0)
       IN  wmSessions' = r.sessions
    /\ wmStopCommands' = wmStopCommands + 1
    /\ UNCHANGED <<wmHandlers, wmRegistry, wmManagers>>

\* startWatcher has returned in the first process: the session is
\* registered, no event emitted yet
WatcherStart ==
    /\ wmHandlers = <<>>
    /\ wmManagers = 1
    /\ wmStopCommands = 0
    /\ wmSessions = <<[mgr |-> 1, open |-> TRUE, born |-> 0, closedAt |-> 0]>>
    /\ wmRegistry = [m \in 1..MaxManagers |-> IF m = 1 THEN 1 ELSE 0]

-----------------------------------------------------------------------------
(***************************************************************************)
(* The file system.  A path is a sequence of names; a name is the sequence *)
(* of its dot-separated segments ("a.json" is <<"a", "json">>, ".keep" is  *)
(* <<"", "keep">>), so that endsWith and startsWith are computed.  A file  *)
(* system maps every existing path to its node.                            *)
(***************************************************************************)

\* no path: this.minecraftDir when getMinecraftDirectory returned null (line 30)
Null == << >>

DirNode == [dir |-> TRUE, size |-> 0, mtime |-> 0, refs |-> {}, readable |-> TRUE]

FileNode(size, mtime, refs) ==
    [dir |-> FALSE, size |-> size, mtime |-> mtime, refs |-> refs, readable |-> TRUE]

\* a file the process may stat and list but not open for reading (EACCES)
Unreadable(node) == [node EXCEPT !.readable = FALSE]

\* path.relative(root, p)
Rel(root, p) == SubSeq(p, Len(root) + 1, Len(p))

Parent(p) == SubSeq(p, 1, Len(p) - 1)

Base(p) == p[Len(p)]

\* path.join(p, name)
Join(p, name) == Append(p, name)

IsPrefix(p, q) == Len(p) <= Len(q) /\ SubSeq(q, 1, Len(p)) = p

\* q lies strictly below p
Below(p, q) == Len(p) < Len(q) /\ SubSeq(q, 1, Len(p)) = p

\* fs.existsSync(p)
Exists(f, p) == p \in DOMAIN f

\* fs.statSync(p).isDirectory(), p existing
IsDirectory(f, p) == f[p].dir

IsFile(f, p) == Exists(f, p) /\ ~f[p].dir

\* the names the model uses, in the order readdirSync lists them
NameOrder ==
    << <<"", "keep">>, <<"a", "json">>, <<"behavior_pack">>, <<"clamp", "js">>,
       <<"d">>, <<"index", "js">>, <<"libraries">>, <<"main", "js">>,
       <<"main", "ts">>, <<"maths">>, <<"old", "png">>, <<"resource_pack">>,
       <<"scripts">>, <<"tscripts">>, <<"tsconfig", "temp", "json">>,
       <<"typescripts">>, <<"utils">>, <<"x", "map">> >>

\* fs.readdirSync(p), p an existing directory: the names of its entries
ReadDir(f, p) == SelectSeq(NameOrder, LAMBDA n : Join(p, n) \in DOMAIN f)

Items(seq) == {seq[i] : i \in DOMAIN seq}

Restrict(f, keep) == [q \in keep |-> f[q]]

\* the paths at or below p
Subtree(f, p) == {q \in DOMAIN f : IsPrefix(p, q)}

\* removeDirectory(dir), lines 431-448: every entry below dir, then dir
RemoveDirectory(f, dir) ==
    IF Exists(f, dir) THEN Restrict(f, DOMAIN f \ Subtree(f, dir)) ELSE f

\* fs.unlinkSync(p), p an existing file
Unlink(f, p) == Restrict(f, DOMAIN f \ {p})

\* the ancestors of p (p included) from the top
Prefixes(p) == {SubSeq(p, 1, k) : k \in 1..Len(p)}

\* fs.mkdirSync(p, {recursive: true}) fails when an entry on the way is a file
MkdirFails(f, p) == \E q \in Prefixes(p) : IsFile(f, q)

\* fs.mkdirSync(p, {recursive: true}): p and its missing ancestors
Mkdir(f, p) ==
    [q \in DOMAIN f \cup Prefixes(p) |-> IF q \in DOMAIN f THEN f[q] ELSE DirNode]

\* fs.copyFileSync(src, dst) fails on a source it cannot read, a directory
\* at dst or a missing parent
CopyFails(f, src, dst) ==
    \/ ~IsFile(f, src)
    \/ ~f[src].readable
    \/ (Exists(f, dst) /\ IsDirectory(f, dst))
    \/ ~(Exists(f, Parent(dst)) /\ IsDirectory(f, Parent(dst)))

\* fs.copyFileSync(src, dst): the content (size, imports) of src; the copy
\* carries the source's mtime where the platform's copy keeps it and the
\* time of the copy elsewhere.
CopyFile(f, src, dst, keeps, clock) ==
    [q \in DOMAIN f \cup {dst} |->
        IF q = dst
        THEN FileNode(f[src].size, IF keeps THEN f[src].mtime ELSE clock, f[src].refs)
        ELSE f[q]]

\* ticks per second: Math.floor(mtime.getTime() / 1000), lines 399-400,
\* with the 1000 ms of a second scaled to 2 ticks
TicksPerSecond == 2

Seconds(t) == t \div TicksPerSecond

-----------------------------------------------------------------------------
(***************************************************************************)
(* smartSync, eslint/workspace-manager.js lines 327-429.  The state of a   *)
(* pass is the record st: the file system, whether an exception left the   *)
(* pass (err), and what the pass did so far.                               *)
(***************************************************************************)

\* item.endsWith('.map') || item.endsWith('.temp.json') || item.startsWith('.'), line 380
Ignorable(item) ==
    \/ (Len(item) >= 2 /\ item[Len(item)] = "map")
    \/ (Len(item) >= 3 /\ item[Len(item) - 1] = "temp" /\ item[Len(item)] = "json")
    \/ (Len(item) >= 2 /\ item[1] = "")

\* the copy decision with >= for >
ShouldCopyNotStrict(f, sourcePath, destPath) ==
    IF ~Exists(f, destPath) THEN TRUE
    ELSE IF f[sourcePath].size # f[destPath].size THEN TRUE
    ELSE Seconds(f[sourcePath].mtime) >= Seconds(f[destPath].mtime)

\* the copy decision without the size comparison
ShouldCopyIgnoresSize(f, sourcePath, destPath) ==
    IF ~Exists(f, destPath) THEN TRUE
    ELSE Seconds(f[sourcePath].mtime) > Seconds(f[destPath].mtime)

\* shouldCopy, lines 384-410
ShouldCopy(f, sourcePath, destPath) ==
    IF ~Exists(f, destPath) THEN TRUE
    ELSE IF f[sourcePath].size # f[destPath].size THEN TRUE
    ELSE Seconds(f[sourcePath].mtime) > Seconds(f[destPath].mtime)

StartPass(f, keeps, clock) ==
    [fs |-> f, keeps |-> keeps, clock |-> clock, err |-> FALSE,
     copied |-> {}, deleted |-> {}, failed |-> {}, skipped |-> {}, trace |-> << >>]

Throw(st) == [st EXCEPT !.err = TRUE]

\* the deletion pass without the preserve list
ToRemoveIgnoresPreserve(destItems, sourceItems, preserveDirs) ==
    {n \in Items(destItems) : n \notin Items(sourceItems)}

\* the deletion pass, lines 340-356: the destination entries whose name is
\* neither in the source listing nor preserved
ToRemove(destItems, sourceItems, preserveDirs) ==
    {n \in Items(destItems) : n \notin Items(sourceItems) /\ n \notin preserveDirs}

RemovePass(st, destination, destItems, sourceItems, preserveDirs) ==
    LET gone == UNION {Subtree(st.fs, Join(destination, n)) :
                          n \in ToRemove(destItems, sourceItems, preserveDirs)}
    IN  [st EXCEPT !.fs = Restrict(st.fs, DOMAIN st.fs \ gone),
                   !.deleted = st.deleted \cup gone]

\* the copy of one source file without the skip of ignorable names
CopyItemCopiesIgnorable(st, sourcePath, destPath) ==
    IF ShouldCopy(st.fs, sourcePath, destPath)
    THEN IF CopyFails(st.fs, sourcePath, destPath)
         THEN [st EXCEPT !.failed = st.failed \cup {destPath}]
         ELSE [st EXCEPT !.fs = CopyFile(st.fs, sourcePath, destPath, st.keeps, st.clock),
                         !.copied = st.copied \cup {<<sourcePath, destPath>>}]
    ELSE [st EXCEPT !.skipped = st.skipped \cup {destPath}]

\* one source file of the copy pass, lines 378-422
CopyItem(st, sourcePath, destPath) ==
    IF Ignorable(Base(sourcePath)) THEN st
    ELSE IF ShouldCopy(st.fs, sourcePath, destPath)
    THEN IF CopyFails(st.fs, sourcePath, destPath)
         THEN [st EXCEPT !.failed = st.failed \cup {destPath}]
         ELSE [st EXCEPT !.fs = CopyFile(st.fs, sourcePath, destPath, st.keeps, st.clock),
                         !.copied = st.copied \cup {<<sourcePath, destPath>>}]
    ELSE [st EXCEPT !.skipped = st.skipped \cup {destPath}]

RECURSIVE SmartSync(_, _, _, _, _)
RECURSIVE CopyPass(_, _, _, _, _, _)

\* the copy pass that recurses without the exclusions
CopyPassDropsExcludes(st, source, destination, sourceItems, excludeDirs, i) ==
    IF st.err \/ i > Len(sourceItems) THEN st
    ELSE LET item == sourceItems[i]
             sourcePath == Join(source, item)
             destPath == Join(destination, item)
         IN  IF ~Exists(st.fs, sourcePath)
             THEN CopyPass(st, source, destination, sourceItems, excludeDirs, i + 1)
             ELSE IF IsDirectory(st.fs, sourcePath)
             THEN IF item \in excludeDirs
                  THEN CopyPass(st, source, destination, sourceItems, excludeDirs, i + 1)
                  ELSE CopyPass(SmartSync(st, sourcePath, destPath, {}, {}),
                                source, destination, sourceItems, excludeDirs, i + 1)
             ELSE CopyPass(CopyItem(st, sourcePath, destPath),
                           source, destination, sourceItems, excludeDirs, i + 1)

\* the copy pass, lines 358-423, from the i-th source item on
CopyPass(st, source, destination, sourceItems, excludeDirs, i) ==
    IF st.err \/ i > Len(sourceItems) THEN st
    ELSE LET item == sourceItems[i]
             sourcePath == Join(source, item)
             destPath == Join(destination, item)
         IN  IF ~Exists(st.fs, sourcePath)
             THEN CopyPass(st, source, destination, sourceItems, excludeDirs, i + 1)
             ELSE IF IsDirectory(st.fs, sourcePath)
             THEN IF item \in excludeDirs
                  THEN CopyPass(st, source, destination, sourceItems, excludeDirs, i + 1)
                  ELSE CopyPass(SmartSync(st, sourcePath, destPath, excludeDirs, {}),
                                source, destination, sourceItems, excludeDirs, i + 1)
             ELSE CopyPass(CopyItem(st, sourcePath, destPath),
                           source, destination, sourceItems, excludeDirs, i + 1)

\* smartSync(source, destination, excludeDirs, preserveDirs), lines 327-429.
\* readdirSync of a path that is a file throws, and nothing in smartSync
\* catches it.
SmartSync(st, source, destination, excludeDirs, preserveDirs) ==
    IF st.err THEN st
    ELSE IF ~Exists(st.fs, destination) /\ MkdirFails(st.fs, destination) THEN Throw(st)
    ELSE LET made == IF Exists(st.fs, destination) THEN st
                     ELSE [st EXCEPT !.fs = Mkdir(st.fs, destination)]
         IN  IF Exists(made.fs, source) /\ ~IsDirectory(made.fs, source) THEN Throw(made)
             ELSE IF ~IsDirectory(made.fs, destination) THEN Throw(made)
             ELSE LET sourceItems == IF Exists(made.fs, source)
                                     THEN ReadDir(made.fs, source) ELSE << >>
                      destItems == ReadDir(made.fs, destination)
                      removed == RemovePass(made, destination, destItems,
                                            sourceItems, preserveDirs)
                  IN  CopyPass(removed, source, destination, sourceItems, excludeDirs, 1)

-----------------------------------------------------------------------------
(***************************************************************************)
(* The build cycle of WorkspaceManager: buildProject (lines 173-285),      *)
(* syncLibrariesIfNeeded (615-678), detectLibraryUsage (680-719) and       *)
(* syncToMinecraft (287-325).  A file's refs are its import statements:    *)
(* [form, lib, sub], the form of the reference, the library name and the   *)
(* subpath after it.                                                       *)
(***************************************************************************)

behavior_pack == <<"behavior_pack">>
resource_pack == <<"resource_pack">>
tscripts == <<"tscripts">>
typescripts == <<"typescripts">>
scripts == <<"scripts">>
libraries == <<"libraries">>

\* this.librariesDir, line 11
librariesDir == << <<"workspace">>, libraries >>

\* the project under study: path.join(this.projectsDir, projectName)
projectName == "proj"
projectPath == << <<"workspace">>, <<"projects">>, <<"proj">> >>

\* the deployment root when one was found, lines 16-27
McDir == << <<"com.mojang">> >>

\* path.join(this.minecraftDir, 'development_behavior_packs', `${projectName}_BP`)
BehaviorPackDest(mc) == mc \o << <<"development_behavior_packs">>, <<"proj_BP">> >>
ResourcePackDest(mc) == mc \o << <<"development_resource_packs">>, <<"proj_RP">> >>

\* item.endsWith(ext) for an extension '.ts' or '.js'
EndsWithExt(item, ext) == Len(item) >= 2 /\ item[Len(item)] = ext

\* getAllFiles(dir, ['.ts', '.js']), lines 721-742
GetAllFiles(f, dir) ==
    {p \in DOMAIN f : /\ Below(dir, p)
                      /\ ~f[p].dir
                      /\ (EndsWithExt(Base(p), "ts") \/ EndsWithExt(Base(p), "js"))}

\* match[1] of the three import patterns, lines 699-706: the first segment
\* after the marker for the relative and the bare form, everything up to the
\* closing quote for the @workspace form
Captured(imp) ==
    IF imp.form = "alias" THEN <<imp.lib>> \o imp.sub ELSE <<imp.lib>>

\* detectLibraryUsage(sourceDir), lines 680-719: the captured names, each once
DetectLibraryUsage(f, sourceDir) ==
    IF ~Exists(f, sourceDir) THEN {}
    ELSE UNION {{Captured(imp) : imp \in f[p].refs} : p \in GetAllFiles(f, sourceDir)}

\* fs.readFileSync(filePath, 'utf8') of line 689 throws on a file that cannot
\* be read; the loop of lines 688-716 has no try around it
ReadFails(f, sourceDir) ==
    Exists(f, sourceDir) /\ \E p \in GetAllFiles(f, sourceDir) : ~f[p].readable

\* the library destination, lines 627-635
LibrariesDestPath(mc) ==
    IF mc # Null
    THEN BehaviorPackDest(mc) \o <<scripts, libraries>>
    ELSE projectPath \o <<behavior_pack, scripts, libraries>>

\* the used libraries in the order of the loop of line 668
RECURSIVE SetToSeq(_)
SetToSeq(S) ==
    IF S = {} THEN << >>
    ELSE LET x == CHOOSE y \in S : TRUE
         IN  <<x>> \o SetToSeq(S \ {x})

RECURSIVE SyncUsedLibraries(_, _, _, _)

\* the loop with source and destination of the copy exchanged
SyncUsedLibrariesSwapped(st, used, dest, i) ==
    IF st.err \/ i > Len(used) THEN st
    ELSE LET libSourcePath == librariesDir \o used[i]
             libDestPath == dest \o used[i]
         IN  SyncUsedLibraries(
                 IF Exists(st.fs, libSourcePath)
                 THEN SmartSync(st, libDestPath, libSourcePath, {}, {})
                 ELSE st,
                 used, dest, i + 1)

\* lines 667-675
SyncUsedLibraries(st, used, dest, i) ==
    IF st.err \/ i > Len(used) THEN st
    ELSE LET libSourcePath == librariesDir \o used[i]
             libDestPath == dest \o used[i]
         IN  SyncUsedLibraries(
                 IF Exists(st.fs, libSourcePath)
                 THEN SmartSync(st, libSourcePath, libDestPath, {}, {})
                 ELSE st,
                 used, dest, i + 1)

\* the cleanup of lines 637-649: the materialized directories not in use
UnusedLibraries(f, dest, used) ==
    {n \in Items(ReadDir(f, dest)) : f[Join(dest, n)].dir /\ <<n>> \notin used}

\* syncLibrariesIfNeeded(projectPath, sourceDir), lines 615-678
SyncLibrariesIfNeeded(st, mc, sourceDir) ==
    IF st.err \/ ~Exists(st.fs, librariesDir) THEN st
    ELSE IF IsFile(st.fs, sourceDir) THEN Throw(st)     \* readdirSync in getAllFiles
    ELSE IF ReadFails(st.fs, sourceDir)                 \* readFileSync, line 689
    THEN Throw([st EXCEPT !.trace = Append(st.trace, "scanError")])
    ELSE
    LET used == DetectLibraryUsage(st.fs, sourceDir)
        dest == LibrariesDestPath(mc)
        scanned == [st EXCEPT !.trace = Append(st.trace, "scan")]
    IN  IF IsFile(scanned.fs, dest) THEN Throw(scanned) \* readdirSync of line 639
        ELSE
        LET gone == IF Exists(scanned.fs, dest)
                    THEN UNION {Subtree(scanned.fs, Join(dest, n)) :
                                    n \in UnusedLibraries(scanned.fs, dest, used)}
                    ELSE {}
            cleaned == [scanned EXCEPT !.fs = Restrict(scanned.fs, DOMAIN scanned.fs \ gone),
                                       !.deleted = scanned.deleted \cup gone,
                                       !.trace = Append(scanned.trace, "materialize")]
        IN  IF used = {}
            THEN [cleaned EXCEPT !.fs = RemoveDirectory(cleaned.fs, dest),
                                 !.deleted = cleaned.deleted \cup Subtree(cleaned.fs, dest)]
            ELSE IF ~Exists(cleaned.fs, dest) /\ MkdirFails(cleaned.fs, dest)
            THEN Throw(cleaned)
            ELSE SyncUsedLibraries(
                     [cleaned EXCEPT !.fs = Mkdir(cleaned.fs, dest)],
                     SetToSeq(used), dest, 1)

\* the outcomes of `npx tsc --project ...` (line 265): it compiles, it reports
\* diagnostics and still emits, or it fails without output
TscOutcomes == {"ok", "diagnostics", "crash"}

\* the .js file tsc writes for a .ts module
Emitted(sourceDir, outputDir, p) ==
    LET r == Rel(sourceDir, p)
        n == Base(p)
    IN  outputDir \o SubSeq(r, 1, Len(r) - 1) \o <<[n EXCEPT ![Len(n)] = "js"]>>

\* the compiler, consumed as a black box: one .js per .ts module under
\* sourceDir, at the same relative path of outputDir
Tsc(f, sourceDir, outputDir, clock) ==
    LET modules == {p \in DOMAIN f : Below(sourceDir, p) /\ ~f[p].dir
                                       /\ EndsWithExt(Base(p), "ts")}
        outs == {p \in modules :
                    LET o == Emitted(sourceDir, outputDir, p)
                    IN  ~MkdirFails(f, Parent(o)) /\ ~(Exists(f, o) /\ f[o].dir)}
        written == {Emitted(sourceDir, outputDir, p) : p \in outs}
        dirs == UNION {Prefixes(Parent(o)) : o \in written}
        srcOf(o) == CHOOSE p \in outs : Emitted(sourceDir, outputDir, p) = o
    IN  [q \in DOMAIN f \cup dirs \cup written |->
            IF q \in written
            THEN FileNode(f[srcOf(q)].size, clock, f[srcOf(q)].refs)
            ELSE IF q \in DOMAIN f THEN f[q] ELSE DirNode]

\* the try block with a compiler failure that leaves buildProject
CompileFailureThrows(st, mc, sourceDir, tsc) ==
    IF st.err \/ mc = Null THEN st
    ELSE LET outputDir == BehaviorPackDest(mc) \o <<scripts>>
             traced == [st EXCEPT !.trace = Append(st.trace, "compile")]
         IN  IF ~Exists(st.fs, outputDir) /\ MkdirFails(st.fs, outputDir)
             THEN traced
             ELSE LET made == IF Exists(st.fs, outputDir) THEN st.fs
                              ELSE Mkdir(st.fs, outputDir)
                  IN  IF tsc = "ok"
                      THEN [traced EXCEPT !.fs = Tsc(made, sourceDir, outputDir, st.clock)]
                      ELSE [traced EXCEPT !.fs = made, !.err = TRUE,
                                          !.trace = Append(traced.trace, "compileFailed")]

\* the try block of buildProject, lines 216-284; a failure of the compiler
\* is caught and logged at lines 269-272.  The block is not reached when
\* syncLibrariesIfNeeded (line 213) has thrown.
Compile(st, mc, sourceDir, tsc) ==
    IF st.err \/ mc = Null THEN st
    ELSE LET outputDir == BehaviorPackDest(mc) \o <<scripts>>
             traced == [st EXCEPT !.trace = Append(st.trace, "compile")]
         IN  IF ~Exists(st.fs, outputDir) /\ MkdirFails(st.fs, outputDir)
             THEN traced                                 \* caught at line 282
             ELSE LET made == IF Exists(st.fs, outputDir) THEN st.fs
                              ELSE Mkdir(st.fs, outputDir)
                  IN  [traced EXCEPT
                          !.fs = IF tsc = "crash" THEN made
                                 ELSE Tsc(made, sourceDir, outputDir, st.clock),
                          !.trace = IF tsc = "ok" THEN traced.trace
                                    ELSE Append(traced.trace, "compileFailed")]

\* buildProject(projectPath), lines 173-285
BuildProject(st, mc, tsc) ==
    LET behaviorPackPath == projectPath \o <<behavior_pack>>
        tscriptsPath == Join(behaviorPackPath, tscripts)
        typescriptsPath == Join(behaviorPackPath, typescripts)
        scriptsSourcePath == Join(behaviorPackPath, scripts)
        isTypeScript == Exists(st.fs, tscriptsPath) \/ Exists(st.fs, typescriptsPath)
        sourceDir == IF Exists(st.fs, tscriptsPath) THEN tscriptsPath ELSE typescriptsPath
    IN  IF isTypeScript
        THEN IF mc = Null THEN Throw(st)                 \* path.join(null, ...), lines 187, 191
             ELSE IF IsFile(st.fs, sourceDir) THEN Throw(st)   \* readdirSync, line 206
             ELSE IF {n \in Items(ReadDir(st.fs, sourceDir)) : EndsWithExt(n, "ts")} = {}
             THEN st
             ELSE Compile(SyncLibrariesIfNeeded(st, mc, sourceDir), mc, sourceDir, tsc)
        ELSE IF Exists(st.fs, scriptsSourcePath)
        THEN SyncLibrariesIfNeeded(st, mc, scriptsSourcePath)
        ELSE st

\* syncToMinecraft(projectName, projectPath), lines 287-325; what smartSync
\* throws is caught at line 322
SyncToMinecraft(st, mc) ==
    IF mc = Null THEN st
    ELSE
    LET behaviorPackSource == projectPath \o <<behavior_pack>>
        resourcePackSource == projectPath \o <<resource_pack>>
        hasTypeScript == \/ Exists(st.fs, Join(behaviorPackSource, tscripts))
                         \/ Exists(st.fs, Join(behaviorPackSource, typescripts))
        bp == IF Exists(st.fs, behaviorPackSource)
              THEN LET r == SmartSync(st, behaviorPackSource, BehaviorPackDest(mc),
                                      {tscripts, typescripts},
                                      IF hasTypeScript THEN {scripts} ELSE {})
                   IN  [r EXCEPT !.trace = Append(r.trace, "syncBP")]
              ELSE st
        rp == IF ~bp.err /\ Exists(bp.fs, resourcePackSource)
              THEN LET r == SmartSync(bp, resourcePackSource, ResourcePackDest(mc), {}, {})
                   IN  [r EXCEPT !.trace = Append(r.trace, "syncRP")]
              ELSE bp
    IN  [rp EXCEPT !.err = FALSE,
                   !.trace = IF rp.err THEN Append(rp.trace, "syncError") ELSE rp.trace]

-----------------------------------------------------------------------------
(***************************************************************************)
(* Initial trees.  A tree is a function from the paths relative to its     *)
(* root (<< >> is the root) to nodes; it is grown from a list of candidate *)
(* entries, parents first, each present with one of its nodes or absent.   *)
(***************************************************************************)

EmptyFs == [q \in {} |-> DirNode]

RootOnly == (<< >> :> DirNode)

RECURSIVE Grow(_, _, _, _)
Grow(cands, i, trees, maxNodes) ==
    IF i > Len(cands) THEN trees
    ELSE LET p == cands[i][1]
             hosts == {t \in trees : /\ Parent(p) \in DOMAIN t
                                     /\ t[Parent(p)].dir
                                     /\ Cardinality(DOMAIN t) <= maxNodes}
         IN  Grow(cands, i + 1,
                  trees \cup {t @@ (p :> n) : t \in hosts, n \in cands[i][2]},
                  maxNodes)

Trees(cands, maxNodes) == Grow(cands, 1, {RootOnly}, maxNodes)

\* the tree t placed at the absolute path base
Graft(base, t) ==
    [q \in {base \o p : p \in DOMAIN t} |-> t[SubSeq(q, Len(base) + 1, Len(q))]]

\* names
aJson == <<"a", "json">>
xMap == <<"x", "map">>
tempJson == <<"tsconfig", "temp", "json">>
dotKeep == <<"", "keep">>
oldPng == <<"old", "png">>
dName == <<"d">>

\* a source file: one size, written at the last full second before MaxTime
SrcFile == FileNode(1, TicksPerSecond * (MaxTime \div TicksPerSecond), {})

\* destination files: every size; written long before the source file, at
\* the same time, or last
DstFiles == {FileNode(sz, t, {}) : sz \in 1..MaxSize, t \in {0, SrcFile.mtime, MaxTime}}

SrcCands ==
    << <<<<aJson>>, {SrcFile}>>,
       <<<<xMap>>, {SrcFile}>>,
       <<<<dName>>, {DirNode, SrcFile}>>,
       <<<<dName, aJson>>, {SrcFile}>>,
       <<<<dName, tscripts>>, {DirNode}>>,
       <<<<dName, tscripts, aJson>>, {SrcFile}>>,
       <<<<scripts>>, {DirNode}>>,
       <<<<scripts, aJson>>, {SrcFile}>>,
       <<<<tscripts>>, {DirNode}>>,
       <<<<tscripts, aJson>>, {SrcFile}>> >>

DstCands ==
    << <<<<aJson>>, DstFiles \cup {DirNode}>>,
       <<<<xMap>>, {SrcFile}>>,
       <<<<oldPng>>, {SrcFile}>>,
       <<<<dName>>, {DirNode, SrcFile}>>,
       <<<<dName, aJson>>, {SrcFile}>>,
       <<<<dName, oldPng>>, {SrcFile}>>,
       <<<<dName, scripts>>, {DirNode}>>,
       <<<<scripts>>, {DirNode}>>,
       <<<<scripts, oldPng>>, {SrcFile}>>,
       <<<<tscripts>>, {DirNode}>>,
       <<<<tscripts, oldPng>>, {SrcFile}>> >>

SrcTrees == Trees(SrcCands, MaxSrcNodes)

\* the destination may not exist yet
DstTrees == Trees(DstCands, MaxDstNodes) \cup {EmptyFs}

SrcRoot == << <<"source">> >>
DstRoot == << <<"destination">> >>

\* the argument lists smartSync is called with: lines 309, 312, 319 and 673
ArgChoices ==
    { [exclude |-> {tscripts, typescripts}, preserve |-> {scripts}],
      [exclude |-> {tscripts, typescripts}, preserve |-> {}],
      [exclude |-> {}, preserve |-> {}] }

NoOp == [copied |-> {}, deleted |-> {}, failed |-> {}, skipped |-> {}, err |-> FALSE,
         trace |-> << >>]

Summary(st) ==
    [copied |-> st.copied, deleted |-> st.deleted, failed |-> st.failed,
     skipped |-> st.skipped, err |-> st.err, trace |-> st.trace]

MaxNow == MaxTime + 1

\* source and destination trees on disk, every file written in the past
SyncStart ==
    /\ \E ts \in SrcTrees, td \in DstTrees :
            fs = Graft(SrcRoot, ts) @@ Graft(DstRoot, td)
    /\ now = MaxTime
    /\ copyKeepsMtime \in BOOLEAN
    /\ args \in ArgChoices
    /\ runs = 0
    /\ minecraftDir = Null
    /\ fsBefore = fs
    /\ fsBuilt = fs
    /\ fsInit = fs
    /\ last = NoOp

\* trees with ignorable names: at the top level and in a nested directory
\* of the source, and in the destination with a size that differs
IgnorableSrcCands ==
    << <<<<aJson>>, {SrcFile}>>,
       <<<<xMap>>, {SrcFile}>>,
       <<<<dotKeep>>, {SrcFile}>>,
       <<<<tempJson>>, {SrcFile}>>,
       <<<<dName>>, {DirNode}>>,
       <<<<dName, aJson>>, {SrcFile}>>,
       <<<<dName, xMap>>, {SrcFile}>>,
       <<<<dName, dotKeep>>, {SrcFile}>>,
       <<<<dName, tempJson>>, {SrcFile}>> >>

IgnorableDstCands ==
    << <<<<xMap>>, {FileNode(MaxSize, 0, {})}>>,
       <<<<tempJson>>, {FileNode(MaxSize, 0, {})}>>,
       <<<<dName>>, {DirNode}>>,
       <<<<dName, xMap>>, {FileNode(MaxSize, 0, {})}>>,
       <<<<dName, dotKeep>>, {FileNode(MaxSize, 0, {})}>> >>

MaxIgnorableNodes == 4

IgnorableStart ==
    /\ \E ts \in Trees(IgnorableSrcCands, MaxIgnorableNodes),
          td \in Trees(IgnorableDstCands, MaxIgnorableNodes) \cup {EmptyFs} :
            fs = Graft(SrcRoot, ts) @@ Graft(DstRoot, td)
    /\ now = MaxTime
    /\ copyKeepsMtime \in BOOLEAN
    /\ args \in ArgChoices
    /\ runs = 0
    /\ minecraftDir = Null
    /\ fsBefore = fs
    /\ fsBuilt = fs
    /\ fsInit = fs
    /\ last = NoOp

\* one call smartSync(source, destination, excludeDirs, preserveDirs)
RunSmartSync ==
    /\ runs < MaxRuns
    /\ \E st \in {SmartSync(StartPass(fs, copyKeepsMtime, now), SrcRoot, DstRoot,
                            args.exclude, args.preserve)} :
           /\ fs' = st.fs
           /\ last' = Summary(st)
    /\ fsBefore' = fs
    /\ fsBuilt' = fs
    /\ runs' = runs + 1
    /\ UNCHANGED <<now, copyKeepsMtime, args, minecraftDir, fsInit>>

\* time passes
Tick ==
    /\ now < MaxNow
    /\ now' = now + 1
    /\ UNCHANGED <<fs, copyKeepsMtime, args, runs, minecraftDir, fsBefore, fsBuilt,
                   fsInit, last>>

\* no file system under study
FsParked ==
    /\ fs = EmptyFs
    /\ now = 0
    /\ copyKeepsMtime = FALSE
    /\ args = [exclude |-> {}, preserve |-> {}]
    /\ runs = 0
    /\ minecraftDir = Null
    /\ fsBefore = EmptyFs
    /\ fsBuilt = EmptyFs
    /\ fsInit = EmptyFs
    /\ last = NoOp

-----------------------------------------------------------------------------
(***************************************************************************)
(* The project, the shared libraries and the deployment on disk.           *)
(***************************************************************************)

mainTs == <<"main", "ts">>
mainJs == <<"main", "js">>
maths == <<"maths">>
utils == <<"utils">>

Import(form, lib, sub) == [form |-> form, lib |-> lib, sub |-> sub]

\* what a script may import: nothing, a library in each of the three forms,
\* a module inside a library through the alias, two libraries
RefChoices ==
    { {},
      {Import("relative", maths, << >>)},
      {Import("bare", utils, << >>)},
      {Import("alias", maths, << >>)},
      {Import("alias", maths, << <<"clamp">> >>)},
      {Import("relative", maths, << >>), Import("bare", utils, << >>)} }

Script(refs) == FileNode(1, TicksPerSecond * (MaxTime \div TicksPerSecond), refs)

\* the shared libraries root: workspace/libraries/{maths/clamp.js, utils/index.js}
LibTree ==
    (<< >> :> DirNode) @@ (<<maths>> :> DirNode) @@ (<<utils>> :> DirNode)
    @@ (<<maths, <<"clamp", "js">>>> :> SrcFile)
    @@ (<<utils, <<"index", "js">>>> :> SrcFile)

ProjCands ==
    << <<<<behavior_pack>>, {DirNode}>>,
       <<<<behavior_pack, aJson>>, {SrcFile}>>,
       <<<<behavior_pack, tscripts>>, {DirNode}>>,
       <<<<behavior_pack, tscripts, mainTs>>, {Script(r) : r \in RefChoices}>>,
       <<<<behavior_pack, typescripts>>, {DirNode}>>,
       <<<<behavior_pack, typescripts, mainTs>>,
            {Script({Import("relative", maths, << >>)})}>>,
       <<<<behavior_pack, scripts>>, {DirNode}>>,
       <<<<behavior_pack, scripts, mainJs>>, {Script(r) : r \in RefChoices}>>,
       <<<<resource_pack>>, {DirNode}>>,
       <<<<resource_pack, aJson>>, {SrcFile}>> >>

\* what earlier cycles left in <name>_BP
DeployCands ==
    << <<<<aJson>>, {SrcFile}>>,
       <<<<oldPng>>, {SrcFile}>>,
       <<<<scripts>>, {DirNode}>>,
       <<<<scripts, mainJs>>, {SrcFile}>>,
       <<<<scripts, libraries>>, {DirNode}>>,
       <<<<scripts, libraries, maths>>, {DirNode}>>,
       <<<<scripts, libraries, maths, <<"clamp", "js">>>>, {SrcFile}>>,
       <<<<scripts, libraries, utils>>, {DirNode}>> >>

MaxProjNodes == 4
MaxDeployNodes == 4

\* the build cycles of one behaviour
MaxCycles == 1

ProjTrees == Trees(ProjCands, MaxProjNodes)

DeployTrees == Trees(DeployCands, MaxDeployNodes) \cup {EmptyFs}

\* the directories above base
Ancestors(base) == [q \in Prefixes(Parent(base)) |-> DirNode]

\* the workspace, and the deployment when a deployment root was found
CycleStart ==
    /\ minecraftDir \in {McDir, Null}
    /\ \E tp \in ProjTrees, td \in DeployTrees :
            /\ minecraftDir = Null => td = EmptyFs
            /\ fs = Graft(projectPath, tp) @@ Graft(librariesDir, LibTree)
                    @@ Ancestors(projectPath)
                    @@ (IF minecraftDir = Null THEN EmptyFs
                        ELSE Graft(BehaviorPackDest(McDir), td)
                             @@ (IF td = EmptyFs THEN (McDir :> DirNode)
                                 ELSE Ancestors(BehaviorPackDest(McDir))))
    /\ now = MaxTime
    /\ copyKeepsMtime \in BOOLEAN
    /\ args = [exclude |-> {}, preserve |-> {}]
    /\ runs = 0
    /\ fsBefore = fs
    /\ fsBuilt = fs
    /\ fsInit = fs
    /\ last = NoOp

\* a watcher handler for a script file, lines 117-126, 128-137 and 151-168:
\* await buildProject, then syncToMinecraft; what buildProject throws
\* rejects the handler before the sync
ScriptCycle(tsc) ==
    /\ runs < MaxCycles
    /\ \E built \in {BuildProject(StartPass(fs, copyKeepsMtime, now), minecraftDir, tsc)} :
       \E st \in {IF built.err THEN built ELSE SyncToMinecraft(built, minecraftDir)} :
           /\ fs' = st.fs
           /\ fsBuilt' = built.fs
           /\ last' = Summary([st EXCEPT !.trace = <<"build">> \o st.trace])
    /\ fsBefore' = fs
    /\ runs' = runs + 1
    /\ UNCHANGED <<now, copyKeepsMtime, args, minecraftDir, fsInit>>

\* a watcher handler for any other file: syncToMinecraft alone
AssetCycle ==
    /\ runs < MaxCycles
    /\ \E st \in {SyncToMinecraft(StartPass(fs, copyKeepsMtime, now), minecraftDir)} :
           /\ fs' = st.fs
           /\ last' = Summary(st)
    /\ fsBefore' = fs
    /\ fsBuilt' = fs
    /\ runs' = runs + 1
    /\ UNCHANGED <<now, copyKeepsMtime, args, minecraftDir, fsInit>>

\* the 'unlink' handler up to its await, lines 151-165: for a removed .ts
\* file the file <basename>.js directly in <name>_BP/scripts is unlinked;
\* unlinkSync of a directory throws
UnlinkHandler(st, mc, filePath) ==
    IF EndsWithExt(Base(filePath), "ts") /\ mc # Null
    THEN LET name == Base(filePath)
             jsFileName == [name EXCEPT ![Len(name)] = "js"]
             outputDir == BehaviorPackDest(mc) \o <<scripts>>
             jsFilePath == Join(outputDir, jsFileName)
         IN  IF ~Exists(st.fs, jsFilePath) THEN st
             ELSE IF st.fs[jsFilePath].dir THEN Throw(st)
             ELSE [st EXCEPT !.fs = Unlink(st.fs, jsFilePath),
                             !.deleted = st.deleted \cup {jsFilePath}]
    ELSE st

\* the .ts files the watcher reports, lines 102-103
WatchedModules(f) ==
    {p \in DOMAIN f :
        /\ ~f[p].dir
        /\ EndsWithExt(Base(p), "ts")
        /\ \/ Below(projectPath \o <<behavior_pack, tscripts>>, p)
           \/ Below(projectPath \o <<behavior_pack, typescripts>>, p)}

\* a module of the project and what the compiler left of earlier modules
ModuleCands ==
    << <<<<behavior_pack>>, {DirNode}>>,
       <<<<behavior_pack, tscripts>>, {DirNode}>>,
       <<<<behavior_pack, tscripts, mainTs>>, {Script({}), Unreadable(Script({}))}>>,
       <<<<behavior_pack, tscripts, dName>>, {DirNode}>>,
       <<<<behavior_pack, tscripts, dName, mainTs>>, {Script({})}>>,
       <<<<behavior_pack, typescripts>>, {DirNode}>>,
       <<<<behavior_pack, typescripts, mainTs>>, {Script({})}>> >>

ArtifactCands ==
    << <<<<scripts>>, {DirNode}>>,
       <<<<scripts, mainJs>>, {SrcFile}>>,
       <<<<scripts, dName>>, {DirNode}>>,
       <<<<scripts, dName, mainJs>>, {SrcFile}>> >>

MaxModuleNodes == 5
MaxArtifactNodes == 3

\* a project of TypeScript modules without imports, and its deployment
ModulesStart ==
    /\ minecraftDir \in {McDir, Null}
    /\ \E tp \in Trees(ModuleCands, MaxModuleNodes),
          td \in Trees(ArtifactCands, MaxArtifactNodes) :
            /\ minecraftDir = Null => td = RootOnly
            /\ fs = Graft(projectPath, tp) @@ Graft(librariesDir, LibTree)
                    @@ Ancestors(projectPath)
                    @@ (IF minecraftDir = Null THEN EmptyFs
                        ELSE Graft(BehaviorPackDest(McDir), td)
                             @@ Ancestors(BehaviorPackDest(McDir)))
    /\ now = MaxTime
    /\ copyKeepsMtime \in BOOLEAN
    /\ args = [exclude |-> {}, preserve |-> {}]
    /\ runs = 0
    /\ fsBefore = fs
    /\ fsBuilt = fs
    /\ fsInit = fs
    /\ last = NoOp

\* the user removes the module filePath and the watcher's 'unlink' handler
\* runs, lines 151-168: the handler's own removal, then syncToMinecraft
UnlinkCycle(filePath) ==
    /\ runs < MaxCycles
    /\ filePath \in WatchedModules(fs)
    /\ \E handled \in {UnlinkHandler(StartPass(Unlink(fs, filePath), copyKeepsMtime, now),
                                      minecraftDir, filePath)} :
       \E st \in {IF handled.err THEN handled ELSE SyncToMinecraft(handled, minecraftDir)} :
           /\ fs' = st.fs
           /\ fsBuilt' = handled.fs
           /\ last' = Summary([st EXCEPT !.trace = <<"unlink">> \o st.trace])
    /\ fsBefore' = fs
    /\ runs' = runs + 1
    /\ UNCHANGED <<now, copyKeepsMtime, args, minecraftDir, fsInit>>

-----------------------------------------------------------------------------
(* Specifications                                                          *)

InitWatchTask == WatchTaskStart /\ WatcherStart /\ FsParked

NextWatchTask ==
    \/ WatchCallback /\ UNCHANGED <<wmVars, fsVars>>
    \/ \E name \in TaskNames : OnStop(name) /\ UNCHANGED <<wmVars, fsVars>>
    \/ \E name \in TaskNames : OnError(name) /\ UNCHANGED <<wmVars, fsVars>>

SpecWatchTask == InitWatchTask /\ [][NextWatchTask]_vars

\* the execution of the watch task that is running ends, with 'stop' or
\* with 'error'
CycleEnds ==
    (OnStop(WATCH_TASK_NAME) \/ OnError(WATCH_TASK_NAME)) /\ UNCHANGED <<wmVars, fsVars>>

\* the watch loop when every cycle terminates
SpecWatchTaskLive == SpecWatchTask /\ WF_vars(CycleEnds)

InitWatcher == WatcherStart /\ WatchTaskStart /\ FsParked

NextWatcher ==
    \/ \E kind \in EventKinds, script \in BOOLEAN, s \in DOMAIN wmSessions :
            HandlerInvoked(kind, script, s) /\ UNCHANGED <<wtVars, fsVars>>
    \/ \E i \in DOMAIN wmHandlers : BuildReturns(i) /\ UNCHANGED <<wtVars, fsVars>>
    \/ \E i \in DOMAIN wmHandlers : SyncReturns(i) /\ UNCHANGED <<wtVars, fsVars>>

SpecWatcher == InitWatcher /\ [][NextWatcher]_vars

\* the watch sessions of the project over starts and stops; the events are
\* changes of a script
NextSession ==
    \/ \E s \in DOMAIN wmSessions :
            /\ Len(wmHandlers) < MaxSessionEvents
            /\ HandlerInvoked("change", TRUE, s) /\ UNCHANGED <<wtVars, fsVars>>
    \/ \E i \in DOMAIN wmHandlers : BuildReturns(i) /\ UNCHANGED <<wtVars, fsVars>>
    \/ \E i \in DOMAIN wmHandlers : SyncReturns(i) /\ UNCHANGED <<wtVars, fsVars>>
    \/ \E m \in 1..MaxManagers : StartWatcher(m) /\ UNCHANGED <<wtVars, fsVars>>
    \/ \E m \in 1..MaxManagers : StopProject(m) /\ UNCHANGED <<wtVars, fsVars>>
    \/ CliStart /\ UNCHANGED <<wtVars, fsVars>>
    \/ CliStop /\ UNCHANGED <<wtVars, fsVars>>

SpecSession == InitWatcher /\ [][NextSession]_vars

InitSync == SyncStart /\ WatchTaskStart /\ WatcherStart

NextSync ==
    \/ RunSmartSync /\ UNCHANGED <<wtVars, wmVars>>
    \/ Tick /\ UNCHANGED <<wtVars, wmVars>>

SpecSync == InitSync /\ [][NextSync]_vars

InitIgnorable == IgnorableStart /\ WatchTaskStart /\ WatcherStart

\* smartSync on trees that hold ignorable names
SpecIgnorable == InitIgnorable /\ [][NextSync]_vars

InitCycle == CycleStart /\ WatchTaskStart /\ WatcherStart

NextCycle ==
    \/ \E tsc \in TscOutcomes : ScriptCycle(tsc) /\ UNCHANGED <<wtVars, wmVars>>
    \/ AssetCycle /\ UNCHANGED <<wtVars, wmVars>>
    \/ Tick /\ UNCHANGED <<wtVars, wmVars>>

SpecCycle == InitCycle /\ [][NextCycle]_vars

InitModules == ModulesStart /\ WatchTaskStart /\ WatcherStart

\* modules are compiled and removed
NextModules ==
    \/ \E tsc \in TscOutcomes : ScriptCycle(tsc) /\ UNCHANGED <<wtVars, wmVars>>
    \/ \E p \in DOMAIN fs : UnlinkCycle(p) /\ UNCHANGED <<wtVars, wmVars>>

SpecModules == InitModules /\ [][NextModules]_vars

-----------------------------------------------------------------------------
(***************************************************************************)
(* Claims                                                                  *)
(***************************************************************************)

\* C1: in watch mode at most one execution of the watched task is in
\* progress at any time, whatever the sequence of change events and task
\* completions; a change event during an execution starts no second one.
C1_SingleExecution ==
    /\ running <= 1
    /\ (running = 1 => taskInProgress)

\* a change event arrived while an execution was running, and still one execution
C1_Witness ==
    /\ running = 1
    /\ pendingWork
    /\ wtBurst >= 2

\* C9: when k >= 1 change events arrived while a cycle was executing and none
\* arrive afterwards, exactly one additional cycle runs after that cycle
\* completes: never more than one is started, and the watcher is back to
\* waiting only after that one cycle.
C9_BurstCoalesces ==
    wtBurst >= 1 =>
        /\ wtFollowUps <= 1
        /\ (running = 0 => wtFollowUps = 1 /\ ~pendingWork)
        /\ (wtFollowUps = 0 => pendingWork /\ running = 1)

\* a burst of two or more events, one follow-up cycle, watcher waiting again
C9_Witness ==
    /\ wtBurst >= 2
    /\ running = 0
    /\ ~taskInProgress
    /\ wtFollowUps = 1

\* C2: in the watch session of startWatcher at most one build+sync cycle of
\* the project is in flight at any time; an event that arrives while a cycle
\* is running starts no second, concurrent cycle.
C2_SingleCycleInFlight == CyclesInFlight <= 1

\* C10: two change events that arrive while a build+sync cycle is executing
\* cause exactly one additional cycle after the first completes, not two.
C10_TwoEventsOneCycle ==
    LET late == {i \in DOMAIN wmHandlers :
                    wmHandlers[i].during /\ wmHandlers[i].kind = "change"}
        cycles == {i \in DOMAIN wmHandlers :
                    CallsSync(wmHandlers[i].kind, wmHandlers[i].script)}
    IN  ( /\ Len(wmHandlers) = 3
          /\ wmHandlers[1].kind = "change"
          /\ late = {2, 3}
          /\ wmHandlers[1].pc = "done" )
        => Cardinality({i \in cycles : i > 1}) = 1

-----------------------------------------------------------------------------
(***************************************************************************)
(* The trees a claim about smartSync speaks of                             *)
(***************************************************************************)

\* the names of the directories a relative path passes through
DirsOn(r) == {r[k] : k \in 1..(Len(r) - 1)}

\* the files below root
FilesBelow(f, root) == {p \in DOMAIN f : Below(root, p) /\ ~f[p].dir}

\* the source files the mirror is to carry: outside every excluded directory, not ignorable
Mirrored(f) ==
    {p \in FilesBelow(f, SrcRoot) :
        /\ DirsOn(Rel(SrcRoot, p)) \cap args.exclude = {}
        /\ ~Ignorable(Base(p))}

\* the source files inside a directory with an excluded name
ExcludedSources(f) ==
    {p \in FilesBelow(f, SrcRoot) : DirsOn(Rel(SrcRoot, p)) \cap args.exclude # {}}

\* C3: after smartSync completes, every source file outside the excluded
\* directories and without an ignorable name exists at the same relative
\* path of the destination, as a file of the same size, whatever the
\* destination held before.
C3_MirrorInvariant ==
    (runs >= 1 /\ ~last.err) =>
        \A p \in Mirrored(fs) :
            LET q == DstRoot \o Rel(SrcRoot, p)
            IN  IsFile(fs, q) /\ fs[q].size = fs[p].size

\* C4: after smartSync completes, no file remains under the destination
\* that is outside every preserved directory and has no file at the same
\* relative path of the source.
C4_DeletionInvariant ==
    (runs >= 1 /\ ~last.err) =>
        \A q \in FilesBelow(fs, DstRoot) :
            DirsOn(Rel(DstRoot, q)) \cap args.preserve = {}
                => IsFile(fs, SrcRoot \o Rel(DstRoot, q))

\* C5: smartSync never creates or overwrites in the destination a file that
\* lies under a source directory with an excluded name, at any depth: no
\* copy has such a source, and the destination path of such a file is
\* absent or as it was before the run.
C5_ExclusionInvariant ==
    /\ \A c \in last.copied : c[1] \notin ExcludedSources(fsBefore)
    /\ \A p \in ExcludedSources(fsBefore) :
          LET q == DstRoot \o Rel(SrcRoot, p)
          IN  Exists(fs, q) => (Exists(fsBefore, q) /\ fs[q] = fsBefore[q])

\* a run that copied a file and left out a file under a nested excluded directory
C5_Witness ==
    /\ runs >= 1
    /\ ~last.err
    /\ last.copied # {}
    /\ \E p \in ExcludedSources(fsBefore) :
          /\ Len(Rel(SrcRoot, p)) >= 3
          /\ ~Exists(fs, DstRoot \o Rel(SrcRoot, p))

C11_PerEntryIsolation == runs >= 1 => ~last.err

\* the destination paths the most recent run called copyFileSync for
Attempted == {c[2] : c \in last.copied} \cup last.failed

\* C20: a non-ignorable source file the pass reaches is copied exactly when
\* the destination has no file there, or the sizes differ, or the sizes are
\* equal and the source's mtime in whole seconds is strictly greater;
\* otherwise it is skipped.  (Copied: smartSync calls copyFileSync for it.)
C20_CopyDecision ==
    (runs >= 1 /\ ~last.err) =>
        \A p \in Mirrored(fsBefore) :
            LET q == DstRoot \o Rel(SrcRoot, p)
                copy == \/ ~IsFile(fsBefore, q)
                        \/ fsBefore[p].size # fsBefore[q].size
                        \/ Seconds(fsBefore[p].mtime) > Seconds(fsBefore[q].mtime)
            IN  /\ (q \in Attempted) = copy
                /\ (q \in last.skipped) = ~copy

\* a run left alone a destination file of the source's size written in a
\* later second than the source file
C20_Witness ==
    /\ runs >= 1
    /\ ~last.err
    /\ \E p \in Mirrored(fsBefore) :
          LET q == DstRoot \o Rel(SrcRoot, p)
          IN  /\ q \in last.skipped
              /\ fsBefore[q].size = fsBefore[p].size
              /\ Seconds(fsBefore[q].mtime) > Seconds(fsBefore[p].mtime)

-----------------------------------------------------------------------------
(***************************************************************************)
(* The build cycle and the deployment                                      *)
(***************************************************************************)

\* the stage named x ran in the most recent operation
Ran(x) == \E i \in DOMAIN last.trace : last.trace[i] = x

\* the most recent operation was buildProject followed by syncToMinecraft,
\* and neither stage ended in an exception
CompleteCycle == Ran("build") /\ Ran("syncBP") /\ ~Ran("syncError") /\ ~last.err

\* the directory buildProject scans for imports, lines 184-198
ScannedDir(f) ==
    LET bp == projectPath \o <<behavior_pack>>
    IN  IF Exists(f, Join(bp, tscripts)) THEN Join(bp, tscripts)
        ELSE IF Exists(f, Join(bp, typescripts)) THEN Join(bp, typescripts)
        ELSE Join(bp, scripts)

\* the library subdirectories of the deployment's scripts/libraries
Materialized(f) ==
    LET dest == LibrariesDestPath(minecraftDir)
    IN  IF Exists(f, dest) /\ f[dest].dir
        THEN {<<n>> : n \in {m \in Items(ReadDir(f, dest)) : f[Join(dest, m)].dir}}
        ELSE {}

\* the project has a compiled-source directory
HasTypeScript(f) ==
    \/ Exists(f, projectPath \o <<behavior_pack, tscripts>>)
    \/ Exists(f, projectPath \o <<behavior_pack, typescripts>>)

\* C6: after a complete build cycle of a project whose scanned directory
\* references exactly the libraries U, all of them present in the shared
\* root, the library subdirectories of the deployment's scripts/libraries
\* are exactly U.
C6_LibraryMinimality ==
    LET src == ScannedDir(fsBefore)
        U == DetectLibraryUsage(fsBefore, src)
    IN  ( /\ minecraftDir # Null
          /\ CompleteCycle
          /\ Exists(fsBefore, src) /\ fsBefore[src].dir
          /\ \A u \in U : Exists(fsBefore, librariesDir \o u)
                          /\ fsBefore[librariesDir \o u].dir )
        => Materialized(fs) = U

\* C7: for a project with tscripts or typescripts, syncToMinecraft deletes
\* nothing inside <name>_BP/scripts: every entry that was there when the sync
\* started is there when it ends.
C7_ScriptsPreserved ==
    LET out == BehaviorPackDest(minecraftDir) \o <<scripts>>
    IN  ( /\ minecraftDir # Null
          /\ Ran("syncBP")
          /\ HasTypeScript(fsBuilt) )
        => \A p \in DOMAIN fsBuilt : (p = out \/ Below(out, p)) => p \in DOMAIN fs

\* a handler cycle from the file system f at the time clock: buildProject,
\* then syncToMinecraft (lines 117-126)
CycleResult(f, clock, tsc) ==
    LET built == BuildProject(StartPass(f, copyKeepsMtime, clock), minecraftDir, tsc)
    IN  IF built.err THEN built ELSE SyncToMinecraft(built, minecraftDir)

\* the file system outside the compiled-output directory <name>_BP/scripts
Assets(f) ==
    LET out == BehaviorPackDest(McDir) \o <<scripts>>
    IN  Restrict(f, {p \in DOMAIN f : ~(p = out \/ Below(out, p))})

\* C12: a cycle whose compile failed still ran the sync stage: buildProject
\* returned normally, and outside the compiled output the file system is the
\* one the same cycle leaves after a successful compile.
C12_CompilerFailureStillSyncs ==
    Ran("compileFailed") =>
        /\ ~last.err
        /\ \E c \in MaxTime..now :
              \E ok \in {CycleResult(fsBefore, c, "ok")} :
                  /\ Assets(fs) = Assets(ok.fs)
                  /\ Ran("syncBP") = (\E i \in DOMAIN ok.trace : ok.trace[i] = "syncBP")

\* the compiler failed and the sync stage copied an asset into the deployment
C12_Witness ==
    /\ Ran("compileFailed")
    /\ Ran("syncBP")
    /\ \E c \in last.copied : c[2] \in DOMAIN Assets(fs)

\* C13: with no deployment root (minecraftDir is null) no cycle creates,
\* copies or deletes anything: the file system stays as it was.
C13_NoMutationWithoutDeployment == minecraftDir = Null => fs = fsInit

\* the shared libraries root and everything below it
LibrariesRoot(f) == Restrict(f, Subtree(f, librariesDir))

\* C14: no cycle creates, modifies or deletes an entry under the shared
\* libraries root, and what is copied out of it lands under the project's
\* libraries destination.
C14_LibrariesRootReadOnly ==
    /\ LibrariesRoot(fs) = LibrariesRoot(fsInit)
    /\ \A c \in last.copied :
          Below(librariesDir, c[1]) => Below(LibrariesDestPath(minecraftDir), c[2])

\* a cycle copied a library file out of the shared root
C14_Witness ==
    /\ Ran("materialize")
    /\ \E c \in last.copied : Below(librariesDir, c[1]) /\ Exists(fs, c[2])

\* C16: after a cycle of a project whose scanned directory references no
\* library, the libraries destination directory does not exist.
C16_NoLibraryNoDirectory ==
    LET src == ScannedDir(fsBefore)
    IN  ( /\ Ran("build") /\ ~last.err /\ ~Ran("syncError")
          /\ Exists(fsBefore, src) /\ fsBefore[src].dir
          /\ DetectLibraryUsage(fsBefore, src) = {} )
        => ~Exists(fs, LibrariesDestPath(minecraftDir))

\* the place of a stage in the order compile, scan, Tree Sync, Materializer
StageRank(x) ==
    CASE x = "compile" -> 1
      [] x = "scan" -> 2
      [] x \in {"syncBP", "syncRP"} -> 3
      [] x = "materialize" -> 4
      [] OTHER -> 0

\* C19: in every cycle the stages that run do so in the order compile,
\* library-usage scan, Tree Sync, Library Materializer; the Materializer
\* never runs before the Tree Sync of the same cycle.
C19_StageOrder ==
    \A i, j \in DOMAIN last.trace :
        ( /\ StageRank(last.trace[i]) # 0
          /\ StageRank(last.trace[i]) < StageRank(last.trace[j]) ) => i < j

-----------------------------------------------------------------------------
(***************************************************************************)
(* Watch sessions, starts and stops                                        *)
(***************************************************************************)

\* the sessions manager m holds open
OpenSessions(m) == {s \in DOMAIN wmSessions : wmSessions[s].open /\ wmSessions[s].mgr = m}

\* handler i has not been interrupted by this step: it is still there and
\* stands where it stood or one await further
Undisturbed(i) ==
    /\ i \in DOMAIN wmHandlers'
    /\ \/ wmHandlers'[i] = wmHandlers[i]
       \/ /\ wmHandlers[i].pc = "build"
          /\ wmHandlers'[i] = [wmHandlers[i] EXCEPT !.pc = "sync"]
       \/ /\ wmHandlers[i].pc = "sync"
          /\ wmHandlers'[i] = [wmHandlers[i] EXCEPT !.pc = "done"]

\* C15: after stopProject the session is closed and out of the registry
\* (a session is open only while registered), no handler is invoked by a
\* session after it was closed, and no step, a stop included, interrupts a
\* handler in flight.
C15_Cancellation ==
    /\ [](\A s \in DOMAIN wmSessions :
            wmSessions[s].open => wmRegistry[wmSessions[s].mgr] = s)
    /\ [](\A i \in DOMAIN wmHandlers :
            ~wmSessions[wmHandlers[i].sess].open
                => i <= wmSessions[wmHandlers[i].sess].closedAt)
    /\ [][\A i \in DOMAIN wmHandlers : Undisturbed(i)]_vars

\* a session was stopped while its handler was in flight; the handler has
\* gone on to its sync stage
C15_Witness ==
    \E i \in DOMAIN wmHandlers :
        LET s == wmHandlers[i].sess
        IN  /\ ~wmSessions[s].open
            /\ wmRegistry[wmSessions[s].mgr] = 0
            /\ wmHandlers[i].script
            /\ wmHandlers[i].pc = "sync"

\* C17: a WorkspaceManager never holds two open sessions of the project, so
\* a file event is handled by at most one session of it.
C17_SingleSession == \A m \in 1..MaxManagers : Cardinality(OpenSessions(m)) <= 1

\* a manager replaced its session by a new one: the old one is closed, the
\* new one registered
C17_Witness ==
    \E s, t \in DOMAIN wmSessions :
        /\ s < t
        /\ wmSessions[s].mgr = wmSessions[t].mgr
        /\ ~wmSessions[s].open
        /\ wmSessions[t].open
        /\ wmRegistry[wmSessions[t].mgr] = t

\* C18: once a `stop <project>` command has returned, the monitoring started
\* before it handles no further file event.
C18_CliStopStops == \A i \in DOMAIN wmHandlers : ~wmHandlers[i].stale

-----------------------------------------------------------------------------
(* The library-usage scan                                                  *)

\* C21: a cycle whose library-usage scan met a source file it could not
\* read is not aborted: buildProject returns normally and the cycle goes on
\* to the sync stage.
C21_ScanErrorIsolated ==
    Ran("scanError") => /\ ~last.err
                        /\ (minecraftDir # Null => Ran("syncBP"))

\* the library names the import statements of the .ts/.js files under dir
\* refer to: the first path segment after the library marker
ReferencedLibraries(f, dir) ==
    UNION {{<<imp.lib>> : imp \in f[p].refs} : p \in GetAllFiles(f, dir)}

\* C22: the scan of a cycle returns exactly the names of the libraries the
\* files under the scanned directory import, in each of the three reference
\* forms the first path segment after the marker, with or without a subpath.
C22_DetectLibraryUsage ==
    Ran("scan") =>
        DetectLibraryUsage(fsBefore, ScannedDir(fsBefore))
            = ReferencedLibraries(fsBefore, ScannedDir(fsBefore))

\* C24: a cycle triggered by a script change in a project with a
\* compiled-source directory, a deployment root given: the compiler is
\* invoked exactly when that directory is not empty, and the cycle reaches
\* the sync stage either way.
C24_CompileDecision ==
    LET dir == ScannedDir(fsBefore)
    IN  ( /\ Ran("build") /\ ~Ran("scanError")
          /\ minecraftDir # Null
          /\ HasTypeScript(fsBefore)
          /\ fsBefore[dir].dir )
        => /\ Ran("compile") = (ReadDir(fsBefore, dir) # << >>)
           /\ Ran("syncBP")

-----------------------------------------------------------------------------
(* smartSync: timestamps, the preserve list, ignorable names               *)

\* C23: every file the most recent pass copied carries, at the destination,
\* the modification time of its source.
C23_CopyPreservesMtime ==
    \A c \in last.copied :
        (Exists(fs, c[1]) /\ Exists(fs, c[2])) => fs[c[2]].mtime = fs[c[1]].mtime

\* the source path a destination path mirrors
SourceOf(q) == SrcRoot \o Rel(DstRoot, q)

\* the destination directories below the top level that a pass over f
\* descends into: every directory on the way is a directory on both sides
\* and none has an excluded name
Descended(f) ==
    {q \in DOMAIN f :
        /\ Below(DstRoot, q)
        /\ \A k \in (Len(DstRoot) + 1)..Len(q) :
              LET d == SubSeq(q, 1, k)
              IN  /\ Exists(f, d) /\ f[d].dir
                  /\ Exists(f, SourceOf(d)) /\ f[SourceOf(d)].dir
                  /\ d[k] \notin args.exclude}

\* C25: the preserve list holds at the top level only.  A top-level
\* destination entry with a preserved name and no source entry stays, with
\* everything below it, as it was; an entry with a preserved name and no
\* source entry inside a nested directory the pass descended into is gone
\* when the pass completes.
C25_PreserveTopLevelOnly ==
    /\ \A n \in args.preserve :
          ~Exists(fsBefore, Join(SrcRoot, n)) =>
              \A p \in Subtree(fsBefore, Join(DstRoot, n)) :
                  Exists(fs, p) /\ fs[p] = fsBefore[p]
    /\ (runs >= 1 /\ ~last.err) =>
          \A d \in Descended(fsBefore) : \A n \in args.preserve :
              ( /\ Exists(fsBefore, Join(d, n))
                /\ ~Exists(fsBefore, Join(SourceOf(d), n)) )
              => ~Exists(fs, Join(d, n))

\* a pass called with scripts preserved deleted destination/d/scripts, a
\* nested directory with the preserved name that the source does not have
C25_Witness ==
    /\ runs >= 1 /\ ~last.err
    /\ scripts \in args.preserve
    /\ \E d \in Descended(fsBefore) :
          /\ Exists(fsBefore, Join(d, scripts))
          /\ ~Exists(fsBefore, Join(SourceOf(d), scripts))
          /\ Join(d, scripts) \in last.deleted
          /\ ~Exists(fs, Join(d, scripts))

\* the paths below the destination root whose name is ignorable
IgnorableDest(f) == {q \in DOMAIN f : Below(DstRoot, q) /\ Ignorable(Base(q))}

\* C26: smartSync writes no destination file whose name ends in .map or
\* .temp.json or starts with a dot: no copy has such a name, and such a
\* path of the destination is absent after the pass or as it was before.
C26_IgnorableNeverWritten ==
    /\ \A c \in last.copied \cup {<<SourceOf(q), q>> : q \in last.failed} :
          ~Ignorable(Base(c[2]))
    /\ \A q \in IgnorableDest(fs) : Exists(fsBefore, q) /\ fs[q] = fsBefore[q]

\* a pass that copied a file of a nested directory and passed over the
\* ignorable file next to it
C26_Witness ==
    /\ runs >= 1 /\ ~last.err
    /\ \E c \in last.copied :
          /\ Len(Rel(SrcRoot, c[1])) >= 2
          /\ \E p \in DOMAIN fsBefore :
                /\ Parent(p) = Parent(c[1])
                /\ ~fsBefore[p].dir
                /\ Ignorable(Base(p))
                /\ ~Exists(fs, DstRoot \o Rel(SrcRoot, p))

-----------------------------------------------------------------------------
(* The watch loop of watchTask: failures, lost changes, the flags          *)

\* C27: a cycle that ends with an error is finished like one that stops:
\* with pending work the flag is cleared and the next cycle starts at once,
\* without it the watcher waits; and whatever failed before, a change event
\* that finds the watcher waiting starts a cycle.
C27_FailuresNonFatal ==
    [][ /\ (wtErrors' = wtErrors + 1) =>
              IF pendingWork
              THEN ~pendingWork' /\ taskInProgress' /\ running' = running
              ELSE ~pendingWork' /\ ~taskInProgress' /\ running' = running - 1
        /\ (wtChanges' = wtChanges + 1 /\ ~taskInProgress) =>
              (taskInProgress' /\ running' = running + 1 /\ ~pendingWork') ]_vars

\* after a failed cycle the watcher waited, and the change event that came
\* then started the cycle now executing
C27_Witness ==
    /\ wtErrors >= 1
    /\ wtChanges >= 1
    /\ wtBurst = 0 /\ wtFollowUps = 1
    /\ running = 1 /\ taskInProgress

\* C28: when every cycle terminates, each change event is followed by a
\* cycle that starts after the event arrived, and once events have stopped
\* arriving the watcher ends up waiting, with nothing pending.
C28_NoChangeLost ==
    /\ \A n \in 1..MaxChanges :
          (wtChanges = n) ~> (wtChanges >= n /\ wtFollowUps >= 1)
    /\ <>[](~taskInProgress /\ ~pendingWork /\ running = 0)

\* every event has arrived, the last of them during a cycle; the cycle
\* started for it has run and the watcher waits
C28_Witness ==
    /\ wtChanges = MaxChanges
    /\ wtBurst = 1
    /\ wtFollowUps = 1
    /\ running = 0 /\ ~taskInProgress /\ ~pendingWork

\* C30: pendingWork is set only while taskInProgress is set.
C30_FlagInvariant == pendingWork => taskInProgress

\* pending work recorded by the one event that arrived during a follow-up
\* cycle, after an earlier cycle had failed
C30_Witness ==
    /\ pendingWork /\ taskInProgress
    /\ wtBurst = 1
    /\ wtErrors >= 1

-----------------------------------------------------------------------------
(* The removal of a module                                                 *)

\* the modules of the compiled-source directory that compile to q
ModulesOf(f, q) ==
    LET src == ScannedDir(f)
        out == BehaviorPackDest(McDir) \o <<scripts>>
    IN  {p \in DOMAIN f : /\ Below(src, p) /\ ~f[p].dir
                           /\ EndsWithExt(Base(p), "ts")
                           /\ Emitted(src, out, p) = q}

\* C29: what the 'unlink' handler itself removes from the deployment's
\* scripts directory is no compiled file of a module that still exists in
\* the compiled-source directory.
C29_UnlinkOwnArtifactOnly ==
    (Ran("unlink") /\ HasTypeScript(fsBuilt)) =>
        \A q \in DOMAIN fsBefore \ DOMAIN fsBuilt :
            Below(BehaviorPackDest(McDir) \o <<scripts>>, q) => ModulesOf(fsBuilt, q) = {}

====
